---------------------------- MODULE Spec2Model ----------------------------
(***************************************************************************)
(* A model of the c-set container (src/set.c, src/set.h): one heap         *)
(* allocation per container, laid out as [set_header][element bytes].      *)
(* The heap maps an address to the allocation that lives there; a          *)
(* container handle is identified with the address of its allocation       *)
(* (the handle is the header address plus a fixed offset).  Element        *)
(* storage is modelled byte by byte, because set_contains and the block    *)
(* moves work on bytes.                                                    *)
(***************************************************************************)
EXTENDS Integers, Sequences, FiniteSets, TLC

VARIABLES heap, st, type_size, hist, last, proc

vars == <<heap, st, type_size, hist, last, proc>>

-----------------------------------------------------------------------------
(* Bounds of the model *)

\* most elements a container is grown to while it is the only one
MaxSize == 4
\* most elements a container is grown to while two containers are live
MaxCopySize == 1
\* number of heap addresses
MaxAddr == 3
\* largest capacity asked of set_reserve
MaxReserve == 3
\* largest capacity asked of set_reserve while two containers are live
MaxCopyReserve == 1

-----------------------------------------------------------------------------
(* Memory *)

NULL == 0
Addr == 1..MaxAddr
\* the caller's two set variables: 1 is c, 2 is c2 (the result of set_copy)
Cont == {1, 2}
\* sizeof(**set_addr) at the call sites
TypeSizes == {1, 2}
\* values the callers pass; 258 = 0x0102 has two different bytes
ValuePool == {1, 258}
\* number of values of an unsigned char
UCharRange == 256
\* a byte whose value is indeterminate (fresh from malloc/realloc)
Indeterminate == -1

RECURSIVE Pow(_, _)
Pow(b, e) == IF e = 0 THEN 1 ELSE b * Pow(b, e - 1)

\* a value converted to the element type (an unsigned type of ts bytes)
Conv(v, ts) == v % Pow(UCharRange, ts)

\* an address with no allocation
Released == [live |-> FALSE, size |-> 0, capacity |-> 0, data |-> <<>>]

\* object representation of value v in an unsigned type of ts bytes, least
\* significant byte first (x86-64, AArch64)
ToBytes(v, ts) ==
  [i \in 1..ts |-> (v \div Pow(UCharRange, i - 1)) % UCharRange]

\* the value a sequence of bytes represents
RECURSIVE FromBytes(_)
FromBytes(bs) ==
  IF Len(bs) = 0 THEN 0
  ELSE IF \E i \in 1..Len(bs) : bs[i] = Indeterminate THEN Indeterminate
  ELSE bs[1] + UCharRange * FromBytes(Tail(bs))

\* (unsigned char)value
ToUChar(v) == v % UCharRange

\* element i (0-based) of the typed array the handle points to
Elem(h, i, ts) == FromBytes(SubSeq(h.data, i * ts + 1, i * ts + ts))

\* the live elements st[0..size-1]
Contents(h, ts) == [i \in 1..h.size |-> Elem(h, i - 1, ts)]

\* all slots of the allocation, live or not
Slots(h, ts) == [i \in 1..(Len(h.data) \div ts) |-> Elem(h, i - 1, ts)]

\* the first n bytes kept, the rest indeterminate (malloc/realloc storage)
Resize(data, n) ==
  [i \in 1..n |-> IF i <= Len(data) THEN data[i] ELSE Indeterminate]

\* realloc(p, ...) giving n bytes of element storage at address q
\* (q = p: resized in place; otherwise moved and p released)
realloc(hp, p, n, q) ==
  [hp EXCEPT ![p] = Released, ![q] = [hp[p] EXCEPT !.data = Resize(@, n)]]

\* memmove(&data[dst], &data[src], n)
memmove(data, dst, src, n) ==
  [k \in 1..Len(data) |->
     IF k - 1 >= dst /\ k - 1 < dst + n
     THEN IF k - dst + src \in 1..Len(data) THEN data[k - dst + src]
                                            ELSE Indeterminate
     ELSE data[k]]

\* *dst = value, for the slot at byte offset dst of allocation s
Store(hp, s, dst, value, ts) ==
  [hp EXCEPT ![s].data =
     [k \in 1..Len(@) |->
        IF k - 1 >= dst /\ k - 1 < dst + ts
        THEN ToBytes(value, ts)[k - dst] ELSE @[k]]]

\* the address malloc returns: addresses are interchangeable, so the model
\* lets the allocator hand out the lowest free one
FreeAddr(hp) ==
  LET free == {a \in Addr : ~hp[a].live}
  IN  {a \in free : \A b \in free : a <= b}

\* addresses realloc(p) may return: p (resized in place) or a fresh one
ReallocAddr(hp, p) == {p} \cup FreeAddr(hp)

-----------------------------------------------------------------------------
(* The functions of set.c *)

set_create(hp, q) ==
  [heap |-> [hp EXCEPT ![q] = [live |-> TRUE, size |-> 0, capacity |-> 0,
                               data |-> <<>>]],
   st |-> q]

set_free(hp, s) == [hp EXCEPT ![s] = Released]

set_size(hp, s) == hp[s].size

set_capacity(hp, s) == hp[s].capacity

\* set_realloc growing by one slot instead of doubling
set_realloc_by_one(hp, h, ts, q) ==
  LET new_capacity == hp[h].capacity + 1
      moved == realloc(hp, h, new_capacity * ts, q)
  IN  [heap |-> [moved EXCEPT ![q].capacity = new_capacity], h |-> q]

set_realloc(hp, h, ts, q) ==
  LET new_capacity == IF hp[h].capacity = 0 THEN 1 ELSE hp[h].capacity * 2
      moved == realloc(hp, h, new_capacity * ts, q)
  IN  [heap |-> [moved EXCEPT ![q].capacity = new_capacity], h |-> q]

\* set_has_space comparing as if the difference were signed, with >=
set_has_space_signed(h) == h.capacity - h.size >= 0

\* capacity - size > 0 on size_t: unsigned subtraction wraps, so the
\* difference is positive exactly when it is not zero
set_has_space(h) == h.capacity - h.size # 0

\* _set_add_dst without the write of the new handle to *set_addr
_set_add_dst_stale_handle(hp, set_addr, ts, q) ==
  LET full == ~(hp[set_addr].capacity - hp[set_addr].size # 0)
      r == IF full THEN set_realloc(hp, set_addr, ts, q)
                   ELSE [heap |-> hp, h |-> set_addr]
      size == r.heap[r.h].size
  IN  [heap |-> [r.heap EXCEPT ![r.h].size = size + 1],
       st |-> set_addr,
       dst |-> ts * size]

\* _set_add_dst with ++h->size for h->size++
_set_add_dst_preincrement(hp, set_addr, ts, q) ==
  LET full == ~(hp[set_addr].capacity - hp[set_addr].size # 0)
      r == IF full THEN set_realloc(hp, set_addr, ts, q)
                   ELSE [heap |-> hp, h |-> set_addr]
      size == r.heap[r.h].size
  IN  [heap |-> [r.heap EXCEPT ![r.h].size = size + 1],
       st |-> r.h,
       dst |-> ts * (size + 1)]

_set_add_dst(hp, set_addr, ts, q) ==
  LET full == ~set_has_space(hp[set_addr])
      r == IF full THEN set_realloc(hp, set_addr, ts, q)
                   ELSE [heap |-> hp, h |-> set_addr]
      size == r.heap[r.h].size
  IN  [heap |-> [r.heap EXCEPT ![r.h].size = size + 1],
       st |-> r.h,
       dst |-> ts * size]

\* set_contains, declared in set.h with an unsigned char value and given in
\* set.c as a macro: a scan of i = 0 .. set_size - 1 that compares data[i],
\* one byte of the storage, with the value (`(&h->data)[i]` read as
\* `h->data[i]`; its `return` is the result of the call)
set_contains(hp, set_addr, value) ==
  LET h == hp[set_addr]
  IN  \E i \in 0..(set_size(hp, set_addr) - 1) :
        i + 1 <= Len(h.data) /\ h.data[i + 1] = value

\* the arguments of the memmove of _set_insert_dst, as byte offsets in h->data
insert_move(h, ts, pos) ==
  [dst |-> (pos + 1) * ts, src |-> pos * ts, n |-> (h.size - pos) * ts]

\* _set_insert_dst moving one element more than the trailing ones
_set_insert_dst_long_move(hp, set_addr, ts, pos, q) ==
  LET new_length == hp[set_addr].size + 1
      full == ~(hp[set_addr].capacity - hp[set_addr].size # 0)
      r == IF full THEN set_realloc(hp, set_addr, ts, q)
                   ELSE [heap |-> hp, h |-> set_addr]
      h == r.heap[r.h]
      moved == memmove(h.data, (pos + 1) * ts, pos * ts,
                       (h.size - pos + 1) * ts)
  IN  [heap |-> [r.heap EXCEPT ![r.h].data = moved, ![r.h].size = new_length],
       st |-> r.h,
       dst |-> pos * ts]

\* _set_insert_dst moving one trailing element too few
_set_insert_dst_short_move(hp, set_addr, ts, pos, q) ==
  LET new_length == hp[set_addr].size + 1
      full == ~(hp[set_addr].capacity - hp[set_addr].size # 0)
      r == IF full THEN set_realloc(hp, set_addr, ts, q)
                   ELSE [heap |-> hp, h |-> set_addr]
      h == r.heap[r.h]
      moved == memmove(h.data, (pos + 1) * ts, pos * ts,
                       (h.size - pos - 1) * ts)
  IN  [heap |-> [r.heap EXCEPT ![r.h].data = moved, ![r.h].size = new_length],
       st |-> r.h,
       dst |-> pos * ts]

_set_insert_dst(hp, set_addr, ts, pos, q) ==
  LET new_length == hp[set_addr].size + 1
      full == ~set_has_space(hp[set_addr])
      r == IF full THEN set_realloc(hp, set_addr, ts, q)
                   ELSE [heap |-> hp, h |-> set_addr]
      h == r.heap[r.h]
      m == insert_move(h, ts, pos)
      moved == memmove(h.data, m.dst, m.src, m.n)
  IN  [heap |-> [r.heap EXCEPT ![r.h].data = moved, ![r.h].size = new_length],
       st |-> r.h,
       dst |-> pos * ts]

\* the memmove of _set_erase moving every slot of the allocation after the
\* range, not the live elements only
erase_move_to_capacity(h, ts, pos, len) ==
  [dst |-> pos * ts, src |-> (pos + len) * ts,
   n |-> (h.capacity - pos - len) * ts]

\* the arguments of the memmove of _set_erase, as byte offsets in h->data
erase_move(h, ts, pos, len) ==
  [dst |-> pos * ts, src |-> (pos + len) * ts, n |-> (h.size - pos - len) * ts]

\* _set_erase taking one off the size whatever len is
_set_erase_drops_one(hp, s, ts, pos, len) ==
  LET h == hp[s]
      moved == memmove(h.data, pos * ts, (pos + len) * ts,
                       (h.size - pos - len) * ts)
  IN  [hp EXCEPT ![s].data = moved, ![s].size = h.size - 1]

\* _set_erase giving the freed slots back: capacity cut down to the new size
_set_erase_shrinks(hp, s, ts, pos, len) ==
  LET h == hp[s]
      moved == memmove(h.data, pos * ts, (pos + len) * ts,
                       (h.size - pos - len) * ts)
  IN  [hp EXCEPT ![s].data = SubSeq(moved, 1, (h.size - len) * ts),
                 ![s].size = h.size - len,
                 ![s].capacity = h.size - len]

\* _set_erase closing the gap from pos + 1, as if len were 1
_set_erase_from_next(hp, s, ts, pos, len) ==
  LET h == hp[s]
      moved == memmove(h.data, pos * ts, (pos + 1) * ts,
                       (h.size - pos - len) * ts)
  IN  [hp EXCEPT ![s].data = moved, ![s].size = h.size - len]

_set_erase(hp, s, ts, pos, len) ==
  LET h == hp[s]
      m == erase_move(h, ts, pos, len)
      moved == memmove(h.data, m.dst, m.src, m.n)
  IN  [hp EXCEPT ![s].data = moved, ![s].size = h.size - len]

_set_remove(hp, s, ts, pos) == _set_erase(hp, s, ts, pos, 1)

\* set_pop decrementing the capacity along with the size
set_pop_shrinks(hp, s) ==
  [hp EXCEPT ![s].size = @ - 1, ![s].capacity = @ - 1]

set_pop(hp, s) == [hp EXCEPT ![s].size = @ - 1]

\* _set_reserve without the early return: it reallocates to any capacity asked
_set_reserve_always(hp, set_addr, ts, capacity, q) ==
  [heap |-> [realloc(hp, set_addr, capacity * ts, q)
               EXCEPT ![q].capacity = capacity],
   st |-> q]

\* _set_reserve growing by the doubling policy instead of to the capacity asked
_set_reserve_doubling(hp, set_addr, ts, capacity, q) ==
  IF hp[set_addr].capacity >= capacity
  THEN [heap |-> hp, st |-> set_addr]
  ELSE LET r == set_realloc(hp, set_addr, ts, q)
       IN  [heap |-> r.heap, st |-> r.h]

_set_reserve(hp, set_addr, ts, capacity, q) ==
  IF hp[set_addr].capacity >= capacity
  THEN [heap |-> hp, st |-> set_addr]
  ELSE [heap |-> [realloc(hp, set_addr, capacity * ts, q)
                    EXCEPT ![q].capacity = capacity],
        st |-> q]

\* alloc_size of _set_copy less sizeof(set_header): the bytes of element
\* storage allocated for the copy and read from the source by the memcpy
alloc_size(h, ts) == h.size * ts

\* _set_copy keeping the capacity the memcpy brought along
_set_copy_keeps_capacity(hp, s, ts, q) ==
  LET h == hp[s]
      copy_h == [live |-> TRUE, size |-> h.size, capacity |-> h.capacity,
                 data |-> SubSeq(h.data, 1, h.size * ts)]
  IN  [heap |-> [hp EXCEPT ![q] = copy_h], st |-> q]

\* _set_copy handing back the source's own storage
_set_copy_shallow(hp, s, ts, q) == [heap |-> hp, st |-> s]

_set_copy(hp, s, ts, q) ==
  LET h == hp[s]
      copy_h == [live |-> TRUE, size |-> h.size, capacity |-> h.capacity,
                 data |-> SubSeq(h.data, 1, alloc_size(h, ts))]
  IN  [heap |-> [hp EXCEPT ![q] = [copy_h EXCEPT !.capacity = copy_h.size]],
       st |-> q]

-----------------------------------------------------------------------------
(* The macros of set.h *)

\* set_add(set_addr, value)
set_add(hp, set_addr, ts, value, q) ==
  IF ~set_contains(hp, set_addr, ToUChar(value))
  THEN LET r == _set_add_dst(hp, set_addr, ts, q)
       IN  [heap |-> Store(r.heap, r.st, r.dst, value, ts), st |-> r.st]
  ELSE [heap |-> hp, st |-> set_addr]

\* set_insert(set_addr, pos, value)
set_insert(hp, set_addr, ts, pos, value, q) ==
  IF ~set_contains(hp, set_addr, ToUChar(value))
  THEN LET r == _set_insert_dst(hp, set_addr, ts, pos, q)
       IN  [heap |-> Store(r.heap, r.st, r.dst, value, ts), st |-> r.st]
  ELSE [heap |-> hp, st |-> set_addr]

-----------------------------------------------------------------------------
(* The caller *)

\* the process that calls the library: whether it runs or was terminated,
\* the allocation call that failed in it, whether it has read or written
\* through the null pointer that call returned, and whether the operation
\* with the failed call has returned to its caller
Running ==
  [status |-> "running", failed |-> "none", deref |-> FALSE,
   returned |-> FALSE]

\* what a build can make of an access through a null pointer: the access
\* traps and the process is terminated, or the access goes through (or is
\* compiled away) and the function carries on to its return
NullAccess == {"trap", "continue"}

\* the process after an operation whose allocation call failed: no function
\* of set.c tests the pointer it gets, the statement after the call
\* accesses the header through it
NullDeref(call, outcome) ==
  [status |-> IF outcome = "trap" THEN "terminated" ELSE "running",
   failed |-> call, deref |-> TRUE, returned |-> outcome = "continue"]

NoHist == [onlyAppend |-> FALSE, onlyGrow |-> FALSE, appended |-> <<>>]

NewHist == [onlyAppend |-> TRUE, onlyGrow |-> TRUE, appended |-> <<>>]

NoLast ==
  [op |-> "none", t |-> 1, pos |-> 0, len |-> 0, value |-> 0,
   st |-> NULL, pre |-> Released, other |-> Released]

Other(t) == 3 - t

Block(hp, s) == IF s = NULL THEN Released ELSE hp[s]

\* what the step about to be taken is, and the state it starts from
Record(op, t, pos, len, value) ==
  [op |-> op, t |-> t, pos |-> pos, len |-> len, value |-> value,
   st |-> st[t], pre |-> Block(heap, st[t]),
   other |-> Block(heap, st[Other(t)])]

\* the addresses a growing operation may be given by realloc
GrowAddr(t) ==
  IF set_has_space(heap[st[t]]) THEN {st[t]} ELSE ReallocAddr(heap, st[t])

Init ==
  /\ heap = [a \in Addr |-> Released]
  /\ st = [t \in Cont |-> NULL]
  /\ type_size \in TypeSizes
  /\ hist = [t \in Cont |-> NoHist]
  /\ last = NoLast
  /\ proc = Running

\* c = set_create();
Create(track) ==
  /\ st[1] = NULL
  /\ \E q \in FreeAddr(heap) :
       LET r == set_create(heap, q)
       IN  /\ heap' = r.heap
           /\ st' = [st EXCEPT ![1] = r.st]
  /\ hist' = [hist EXCEPT ![1] = IF track THEN NewHist ELSE NoHist]
  /\ last' = Record("create", 1, 0, 0, 0)
  /\ UNCHANGED <<type_size, proc>>

\* *set_add_dst(&c) = value;
AddDst(t, max) ==
  /\ st[t] # NULL
  /\ set_size(heap, st[t]) < max
  /\ \E value \in ValuePool, q \in GrowAddr(t) :
       LET r == _set_add_dst(heap, st[t], type_size, q)
       IN  /\ heap' = Store(r.heap, r.st, r.dst, value, type_size)
           /\ st' = [st EXCEPT ![t] = r.st]
           /\ hist' = [hist EXCEPT ![t].appended =
                         IF hist[t].onlyAppend
                         THEN Append(@, Conv(value, type_size)) ELSE @]
           /\ last' = Record("add_dst", t, 0, 0, value)
  /\ UNCHANGED <<type_size, proc>>

\* *set_insert_dst(&c, pos) = value;
InsertDst(t, max) ==
  /\ st[t] # NULL
  /\ set_size(heap, st[t]) < max
  /\ \E pos \in 0..set_size(heap, st[t]), value \in ValuePool,
        q \in GrowAddr(t) :
       LET r == _set_insert_dst(heap, st[t], type_size, pos, q)
       IN  /\ heap' = Store(r.heap, r.st, r.dst, value, type_size)
           /\ st' = [st EXCEPT ![t] = r.st]
           /\ last' = Record("insert_dst", t, pos, 0, value)
  /\ hist' = [hist EXCEPT ![t].onlyAppend = FALSE, ![t].appended = <<>>]
  /\ UNCHANGED <<type_size, proc>>

\* set_add(&c, value);
SetAdd(t, max) ==
  /\ st[t] # NULL
  /\ set_size(heap, st[t]) < max
  /\ \E value \in ValuePool, q \in GrowAddr(t) :
       LET r == set_add(heap, st[t], type_size, value, q)
       IN  /\ heap' = r.heap
           /\ st' = [st EXCEPT ![t] = r.st]
           /\ hist' = [hist EXCEPT ![t].appended =
                         IF hist[t].onlyAppend
                            /\ r.heap[r.st].size # heap[st[t]].size
                         THEN Append(@, Conv(value, type_size)) ELSE @]
           /\ last' = Record("set_add", t, 0, 0, value)
  /\ UNCHANGED <<type_size, proc>>

\* set_insert(&c, pos, value);
SetInsert(t, max) ==
  /\ st[t] # NULL
  /\ set_size(heap, st[t]) < max
  /\ \E pos \in 0..set_size(heap, st[t]), value \in ValuePool,
        q \in GrowAddr(t) :
       LET r == set_insert(heap, st[t], type_size, pos, value, q)
       IN  /\ heap' = r.heap
           /\ st' = [st EXCEPT ![t] = r.st]
           /\ hist' = IF r.heap[r.st].size # heap[st[t]].size
                      THEN [hist EXCEPT ![t].onlyAppend = FALSE,
                                        ![t].appended = <<>>]
                      ELSE hist
           /\ last' = Record("set_insert", t, pos, 0, value)
  /\ UNCHANGED <<type_size, proc>>

\* set_erase(c, pos, len);
Erase(t) ==
  /\ st[t] # NULL
  /\ \E pos \in 0..set_size(heap, st[t]) :
       \E len \in 0..(set_size(heap, st[t]) - pos) :
         /\ heap' = _set_erase(heap, st[t], type_size, pos, len)
         /\ last' = Record("erase", t, pos, len, 0)
  /\ hist' = [hist EXCEPT ![t] = NoHist]
  /\ UNCHANGED <<st, type_size, proc>>

\* set_remove(c, pos);
Remove(t) ==
  /\ st[t] # NULL
  /\ \E pos \in 0..(set_size(heap, st[t]) - 1) :
       /\ heap' = _set_remove(heap, st[t], type_size, pos)
       /\ last' = Record("remove", t, pos, 1, 0)
  /\ hist' = [hist EXCEPT ![t] = NoHist]
  /\ UNCHANGED <<st, type_size, proc>>

\* set_pop(c);
Pop(t) ==
  /\ st[t] # NULL
  /\ set_size(heap, st[t]) > 0
  /\ heap' = set_pop(heap, st[t])
  /\ last' = Record("pop", t, 0, 0, 0)
  /\ hist' = [hist EXCEPT ![t] = NoHist]
  /\ UNCHANGED <<st, type_size, proc>>

\* set_reserve(&c, capacity);
Reserve(t, max) ==
  /\ st[t] # NULL
  /\ \E capacity \in 0..max :
       \E q \in IF heap[st[t]].capacity >= capacity
                THEN {st[t]} ELSE ReallocAddr(heap, st[t]) :
         LET r == _set_reserve(heap, st[t], type_size, capacity, q)
         IN  /\ heap' = r.heap
             /\ st' = [st EXCEPT ![t] = r.st]
             /\ last' = Record("reserve", t, 0, 0, capacity)
             /\ hist' = [hist EXCEPT ![t].onlyGrow =
                           @ /\ r.heap[r.st].capacity = heap[st[t]].capacity]
  /\ UNCHANGED <<type_size, proc>>

\* c2 = set_copy(c);  (or c = set_copy(c2) once c was freed)
Copy(t) ==
  /\ st[t] # NULL
  /\ st[Other(t)] = NULL
  /\ \E q \in FreeAddr(heap) :
       LET r == _set_copy(heap, st[t], type_size, q)
       IN  /\ heap' = r.heap
           /\ st' = [st EXCEPT ![Other(t)] = r.st]
  /\ last' = Record("copy", t, 0, 0, 0)
  /\ hist' = [hist EXCEPT ![Other(t)] = NoHist]
  /\ UNCHANGED <<type_size, proc>>

\* set_free(c); c = c2; the caller goes on with the copy
Replace ==
  /\ st[1] # NULL
  /\ st[2] # NULL
  /\ heap' = set_free(heap, st[1])
  /\ st' = [st EXCEPT ![1] = st[2], ![2] = NULL]
  /\ last' = [Record("free", 1, 0, 0, 0) EXCEPT !.other = Released]
  /\ hist' = [t \in Cont |-> NoHist]
  /\ UNCHANGED <<type_size, proc>>

\* set_free(c); the caller drops the handle
Free(t) ==
  /\ st[t] # NULL
  /\ heap' = set_free(heap, st[t])
  /\ st' = [st EXCEPT ![t] = NULL]
  /\ last' = Record("free", t, 0, 0, 0)
  /\ hist' = [hist EXCEPT ![t] = NoHist]
  /\ UNCHANGED <<type_size, proc>>

\* c is the only live container
\* no allocation call has failed in the process
Alive == proc = Running

\* c = set_create(); with malloc returning NULL: h->capacity = 0 writes
\* through it
CreateFail ==
  /\ Alive
  /\ st[1] = NULL
  /\ \E outcome \in NullAccess : proc' = NullDeref("malloc", outcome)
  /\ last' = Record("create", 1, 0, 0, 0)
  /\ UNCHANGED <<heap, st, type_size, hist>>

\* set_add_dst(&c) on a full container with the realloc of set_realloc
\* returning NULL: new_h->capacity = new_capacity writes through it
AddDstFail(t) ==
  /\ Alive
  /\ st[t] # NULL
  /\ ~set_has_space(heap[st[t]])
  /\ \E outcome \in NullAccess : proc' = NullDeref("realloc", outcome)
  /\ last' = Record("add_dst", t, 0, 0, 0)
  /\ UNCHANGED <<heap, st, type_size, hist>>

\* set_insert_dst(&c, pos) on a full container, realloc returning NULL
InsertDstFail(t) ==
  /\ Alive
  /\ st[t] # NULL
  /\ ~set_has_space(heap[st[t]])
  /\ \E pos \in 0..set_size(heap, st[t]), outcome \in NullAccess :
       /\ proc' = NullDeref("realloc", outcome)
       /\ last' = Record("insert_dst", t, pos, 0, 0)
  /\ UNCHANGED <<heap, st, type_size, hist>>

\* set_reserve(&c, capacity) above the capacity with realloc returning NULL:
\* h->capacity = capacity writes through it
ReserveFail(t, max) ==
  /\ Alive
  /\ st[t] # NULL
  /\ \E capacity \in 0..max, outcome \in NullAccess :
       /\ ~(heap[st[t]].capacity >= capacity)
       /\ proc' = NullDeref("realloc", outcome)
       /\ last' = Record("reserve", t, 0, 0, capacity)
  /\ UNCHANGED <<heap, st, type_size, hist>>

\* c2 = set_copy(c); with malloc returning NULL: memcpy writes the header and
\* the elements through it
CopyFail(t) ==
  /\ Alive
  /\ st[t] # NULL
  /\ st[Other(t)] = NULL
  /\ \E outcome \in NullAccess : proc' = NullDeref("malloc", outcome)
  /\ last' = Record("copy", t, 0, 0, 0)
  /\ UNCHANGED <<heap, st, type_size, hist>>

Sole == st[2] = NULL

\* One owner working on one container c: it may take a copy c2, which it
\* either frees or goes on with in place of c.
Next ==
  \/ Create(TRUE)
  \/ Sole /\ AddDst(1, MaxSize)
  \/ Sole /\ InsertDst(1, MaxSize)
  \/ Sole /\ SetAdd(1, MaxSize)
  \/ Sole /\ SetInsert(1, MaxSize)
  \/ Sole /\ Erase(1)
  \/ Sole /\ Remove(1)
  \/ Sole /\ Pop(1)
  \/ Sole /\ Reserve(1, MaxReserve)
  \/ Copy(1)
  \/ Replace
  \/ Free(2)
  \/ Sole /\ Free(1)

Spec == Init /\ [][Next]_vars

\* A container and its copy, both live and both worked on, in any interleaving.
\* a caller that writes elements through set_add and set_insert only
NextSet ==
  \/ Create(FALSE)
  \/ Sole /\ SetAdd(1, MaxSize)
  \/ Sole /\ SetInsert(1, MaxSize)
  \/ Sole /\ Erase(1)
  \/ Sole /\ Remove(1)
  \/ Sole /\ Pop(1)
  \/ Sole /\ Reserve(1, MaxReserve)
  \/ Copy(1)
  \/ Replace
  \/ Free(2)
  \/ Sole /\ Free(1)

SpecSet == Init /\ [][NextSet]_vars

\* a caller whose allocation calls can fail
NextFail ==
  \/ Alive /\ Create(FALSE)
  \/ Alive /\ Sole /\ AddDst(1, MaxSize)
  \/ Alive /\ Sole /\ InsertDst(1, MaxSize)
  \/ Alive /\ Sole /\ Pop(1)
  \/ Alive /\ Sole /\ Reserve(1, MaxReserve)
  \/ Alive /\ Copy(1)
  \/ Alive /\ Free(2)
  \/ Alive /\ Sole /\ Free(1)
  \/ CreateFail
  \/ Sole /\ AddDstFail(1)
  \/ Sole /\ InsertDstFail(1)
  \/ Sole /\ ReserveFail(1, MaxReserve)
  \/ CopyFail(1)

SpecFail == Init /\ [][NextFail]_vars

NextCopy ==
  \/ Create(FALSE)
  \/ \E t \in Cont : AddDst(t, MaxCopySize)
  \/ \E t \in Cont : InsertDst(t, MaxCopySize)
  \/ \E t \in Cont : Erase(t)
  \/ \E t \in Cont : Remove(t)
  \/ \E t \in Cont : Pop(t)
  \/ \E t \in Cont : Reserve(t, MaxCopyReserve)
  \/ Copy(1)
  \/ Free(2)

SpecCopy == Init /\ [][NextCopy]_vars

-----------------------------------------------------------------------------
(* Vocabulary of the properties *)

\* the container the last step worked on, after the step
Cur == Block(heap, st[last.t])

\* its elements after and before the step
CurContents == Contents(Cur, type_size)
PreContents == Contents(last.pre, type_size)

\* the value of the last step as the element type holds it
LastValue == Conv(last.value, type_size)

\* s with v spliced in at index p (0-based)
Splice(s, p, v) == SubSeq(s, 1, p) \o <<v>> \o SubSeq(s, p + 1, Len(s))

\* s without the len elements from index p (0-based) on
Delete(s, p, len) == SubSeq(s, 1, p) \o SubSeq(s, p + len + 1, Len(s))

Range(s) == {s[i] : i \in 1..Len(s)}

\* the last step was a duplicate-free add or insert
DupFree == last.op \in {"set_add", "set_insert"}

\* the last step was an append or an insert, raw or duplicate-free
Grower == last.op \in {"add_dst", "insert_dst", "set_add", "set_insert"}

\* capacity after k growth steps from 0 that holds n elements: 0, 1, 2, 4, ...
RECURSIVE Doubled(_, _)
Doubled(cap, n) ==
  IF cap >= n THEN cap ELSE Doubled(IF cap = 0 THEN 1 ELSE 2 * cap, n)

-----------------------------------------------------------------------------
(* Properties *)

\* C1: a container that has only been appended to since set_create has as
\* many elements as were appended, and they read back in the order they were
\* appended, reallocations included.
C1_AppendOrder ==
  (st[1] # NULL /\ hist[1].onlyAppend) =>
     /\ set_size(heap, st[1]) = Len(hist[1].appended)
     /\ Contents(heap[st[1]], type_size) = hist[1].appended

\* three different-looking appends, the first two of which reallocated
C1_Witness ==
  /\ st[1] # NULL
  /\ hist[1].onlyAppend
  /\ last.op = "add_dst"
  /\ Len(hist[1].appended) = 3
  /\ hist[1].appended[1] # hist[1].appended[2]
  /\ set_capacity(heap, st[1]) = 4

\* C2: insert-slot at pos followed by the write of value gives the old
\* sequence with value spliced in at pos and one more element, whether or not
\* the insert reallocated.
C2_InsertSplices ==
  last.op = "insert_dst" =>
     /\ Cur.size = last.pre.size + 1
     /\ CurContents = Splice(PreContents, last.pos, LastValue)

\* an insert in the middle of a full container
C2_Witness ==
  /\ last.op = "insert_dst"
  /\ last.pre.size = last.pre.capacity
  /\ last.pre.size = 2
  /\ last.pos = 1
  /\ PreContents[1] # PreContents[2]

\* C3: erase-range at pos of len elements gives the old sequence without the
\* elements pos..pos+len-1 and len fewer elements; remove is erase-range of
\* one element.
C3_EraseDeletes ==
  /\ last.op = "erase" =>
       /\ Cur.size = last.pre.size - last.len
       /\ CurContents = Delete(PreContents, last.pos, last.len)
  /\ last.op = "remove" =>
       /\ Cur.size = last.pre.size - 1
       /\ CurContents = Delete(PreContents, last.pos, 1)

\* two elements erased in front of a remaining one
C3_Witness ==
  /\ last.op = "erase"
  /\ last.pre.size = 3
  /\ last.pos = 0
  /\ last.len = 2
  /\ Cur.size = 1

\* C4: a duplicate-free add or insert of a value that is an element of the
\* container changes nothing: not the size, not a byte of the container.
C4_DuplicateIsNoOp ==
  (DupFree /\ LastValue \in Range(PreContents)) =>
     /\ Cur = last.pre
     /\ st[last.t] = last.st

\* C5: a duplicate-free add or insert of a value that is no element of the
\* container adds exactly one element, the value, at index size (add) or at
\* pos (insert).
C5_AbsentIsAdded ==
  (DupFree /\ LastValue \notin Range(PreContents)) =>
     /\ Cur.size = last.pre.size + 1
     /\ last.op = "set_add" => CurContents = Append(PreContents, LastValue)
     /\ last.op = "set_insert" =>
          CurContents = Splice(PreContents, last.pos, LastValue)

\* C6: set_copy gives a second container with the size and the elements of the
\* source and a capacity equal to its size, and leaves the source as it was.
C6_CopyIsTight ==
  last.op = "copy" =>
     LET c2 == Block(heap, st[Other(last.t)])
     IN  /\ c2.live
         /\ c2.size = last.pre.size
         /\ Contents(c2, type_size) = PreContents
         /\ c2.capacity = c2.size
         /\ Cur = last.pre
         /\ st[last.t] = last.st

\* a copy of a container with spare capacity
C6_Witness ==
  /\ last.op = "copy"
  /\ last.pre.size = 2
  /\ last.pre.capacity > 2
  /\ PreContents[1] # PreContents[2]

\* the last step changed, or could have changed, container last.t
Mutator ==
  last.op \in {"add_dst", "insert_dst", "erase", "remove", "pop", "reserve"}

\* C7: while a container and its copy are both live, a mutating operation on
\* one of them leaves the size, the capacity and the bytes of the other as
\* they were; step by step, so does every sequence of them.
C7_CopyIsIndependent ==
  (Mutator /\ last.other.live) =>
     /\ st[Other(last.t)] # NULL
     /\ st[Other(last.t)] # st[last.t]
     /\ Block(heap, st[Other(last.t)]) = last.other

\* the copy reallocated by an insert while the source holds an element
C7_Witness ==
  /\ last.op = "insert_dst"
  /\ last.t = 2
  /\ last.other.live
  /\ last.other.size = 1
  /\ Cur.capacity # last.pre.capacity

\* C8: set_reserve of a capacity the container has changes nothing, handle
\* included; of a larger one it makes the capacity exactly that, with the
\* size and the elements as they were.
C8_ReserveExact ==
  last.op = "reserve" =>
     IF last.value <= last.pre.capacity
     THEN Cur = last.pre /\ st[last.t] = last.st
     ELSE /\ Cur.capacity = last.value
          /\ Cur.size = last.pre.size
          /\ CurContents = PreContents

\* a reserve of 3 on a container of capacity 1 that holds an element
C8_Witness ==
  /\ last.op = "reserve"
  /\ last.pre.capacity = 1
  /\ last.pre.size = 1
  /\ last.value = 3
  /\ Cur.capacity = 3

\* C9: every live container has size <= capacity.
C9_SizeWithinCapacity ==
  \A t \in Cont :
     st[t] # NULL => set_size(heap, st[t]) <= set_capacity(heap, st[t])

\* an append that found the container full
C9_Witness ==
  /\ last.op = "add_dst"
  /\ last.pre.size = 2
  /\ last.pre.capacity = 2
  /\ Cur.size = 3

\* C10: an append or insert reallocates exactly when it finds size = capacity,
\* to max(1, 2 * capacity), whatever set the capacity before (growth, reserve
\* or copy); one that finds a free slot leaves the capacity alone; a container
\* only appended and inserted to since set_create has capacity 0, 1, 2, 4, ...:
\* the first of these that holds its elements.
C10_Doubling ==
  /\ (Grower /\ Cur.size # last.pre.size) =>
        Cur.capacity =
          IF last.pre.size = last.pre.capacity
          THEN (IF last.pre.capacity = 0 THEN 1 ELSE 2 * last.pre.capacity)
          ELSE last.pre.capacity
  /\ (Grower /\ Cur.size = last.pre.size) => Cur.capacity = last.pre.capacity
  /\ (st[1] # NULL /\ hist[1].onlyGrow) =>
        set_capacity(heap, st[1]) = Doubled(0, set_size(heap, st[1]))

\* a container of capacity 3, which only set_reserve or set_copy gives, is
\* appended to when full and grows to 6
C10_Witness ==
  /\ last.op = "add_dst"
  /\ last.pre.size = 3
  /\ last.pre.capacity = 3
  /\ Cur.capacity = 6

\* the last step was an erase-range, a remove or a pop
Remover == last.op \in {"erase", "remove", "pop"}

\* the addresses that hold an allocation, and those the caller has a handle to
LiveAddr == {a \in Addr : heap[a].live}
Handles == {st[t] : t \in Cont} \ {NULL}

\* C11: no append, insert, erase, remove, pop or reserve leaves the container
\* with a lower capacity than it found.
C11_CapacityMonotone ==
  (Grower \/ Remover \/ last.op = "reserve") =>
     Cur.capacity >= last.pre.capacity

\* a reserve of less than the capacity of the container
C11_Witness ==
  /\ last.op = "reserve"
  /\ last.pre.capacity = 4
  /\ last.value = 2
  /\ last.pre.size = 1

\* C13: set_pop on a container that holds an element takes one off the size
\* and changes nothing else: not the capacity, not the handle, not a byte of
\* the storage, the vacated slot included.
C13_PopOnlyDecrements ==
  last.op = "pop" =>
     /\ Cur.size = last.pre.size - 1
     /\ Cur.capacity = last.pre.capacity
     /\ Cur.data = last.pre.data
     /\ Slots(Cur, type_size)[last.pre.size] = PreContents[last.pre.size]
     /\ CurContents = SubSeq(PreContents, 1, last.pre.size - 1)
     /\ st[last.t] = last.st

\* a pop of the second of two different elements
C13_Witness ==
  /\ last.op = "pop"
  /\ last.pre.size = 2
  /\ PreContents[1] # PreContents[2]

\* C14: every handle the caller holds refers to a live allocation, and the
\* live allocations are those it holds handles to; after an append, insert or
\* reserve that reallocated, the handle written back leads to the header with
\* the new capacity, and the allocation it left is released.
C14_HandleIsLive ==
  /\ \A t \in Cont : st[t] # NULL => heap[st[t]].live
  /\ LiveAddr = Handles
  /\ ((Grower \/ last.op = "reserve") /\ st[last.t] # last.st) =>
        /\ ~heap[last.st].live
        /\ set_capacity(heap, st[last.t]) > last.pre.capacity
        /\ set_size(heap, st[last.t]) \in {last.pre.size, last.pre.size + 1}

\* an append that moved a container of two elements to another address
C14_Witness ==
  /\ last.op = "add_dst"
  /\ last.pre.size = 2
  /\ st[last.t] # last.st
  /\ Cur.capacity = 4

\* C16: erase-range, remove and pop leave the capacity, the handle and the
\* allocation (its address and its extent) as they were.
C16_RemovalKeepsAllocation ==
  Remover =>
     /\ Cur.live
     /\ Cur.capacity = last.pre.capacity
     /\ Len(Cur.data) = Len(last.pre.data)
     /\ st[last.t] = last.st
     /\ LiveAddr = Handles

\* every element of a container with spare capacity erased
C16_Witness ==
  /\ last.op = "erase"
  /\ last.pre.size = 3
  /\ last.pre.capacity = 4
  /\ last.len = 3

\* s without the elements at the (0-based) indices in U
Without(s, U) ==
  LET kept == SelectSeq([i \in 1..Len(s) |-> i], LAMBDA i : (i - 1) \notin U)
  IN  [k \in 1..Len(kept) |-> s[kept[k]]]

\* the index an element at index i after the erase of last had before it
OrigIndex(i) == IF i < last.pos THEN i ELSE i + last.len

\* the heap before the last step, as far as the container of the step goes
PreHeap == [heap EXCEPT ![st[last.t]] = Released, ![last.st] = last.pre]

\* C12: after an erase-range, every further erase-range (given in the indices
\* of the shortened container, on either side of the first or around it)
\* leaves what deleting the union of the two ranges from the original
\* sequence leaves; and erase(p, a) then erase(p, b) leaves the size, the
\* capacity and the elements that erase(p, a + b) on the original leaves.
C12_ErasesCompose ==
  last.op = "erase" =>
     \A p \in 0..Cur.size : \A len \in 0..(Cur.size - p) :
        LET two == _set_erase(heap, st[last.t], type_size, p, len)[st[last.t]]
            first == last.pos..(last.pos + last.len - 1)
            second == {OrigIndex(i) : i \in p..(p + len - 1)}
        IN  /\ two.size = last.pre.size - Cardinality(first \cup second)
            /\ Contents(two, type_size) =
                  Without(PreContents, first \cup second)
            /\ two.capacity = last.pre.capacity
            /\ p = last.pos =>
                  LET one == _set_erase(PreHeap, last.st, type_size,
                                        last.pos, last.len + len)[last.st]
                  IN  /\ one.size = two.size
                      /\ one.capacity = two.capacity
                      /\ Contents(one, type_size) = Contents(two, type_size)

\* the second of four different-looking elements erased, two elements left
\* after it and one before it for the further erase
C12_Witness ==
  /\ last.op = "erase"
  /\ last.pre.size = 4
  /\ last.pos = 1
  /\ last.len = 1
  /\ PreContents[1] # PreContents[2]
  /\ PreContents[3] # PreContents[4]

\* C19: an insert-slot at the position equal to the size does what an
\* append-slot does: the two give the same heap (size, capacity, every byte),
\* the same handle and the same slot, the slot at the old size, and no element
\* is shifted.
C19_InsertAtEndIsAppend ==
  (last.op = "insert_dst" /\ last.pos = last.pre.size) =>
     LET ins == _set_insert_dst(PreHeap, last.st, type_size, last.pos,
                                st[last.t])
         add == _set_add_dst(PreHeap, last.st, type_size, st[last.t])
     IN  /\ ins = add
         /\ add.dst = last.pre.size * type_size
         /\ heap = Store(add.heap, add.st, add.dst, last.value, type_size)
         /\ st[last.t] = add.st
         /\ Cur.size = last.pre.size + 1
         /\ \A i \in 1..Len(last.pre.data) :
              (i <= add.dst \/ i > add.dst + type_size) =>
                 Cur.data[i] = last.pre.data[i]

\* an insert at the end of a container with spare slots that hold the
\* different bytes of elements erased before
C19_Witness ==
  /\ last.op = "insert_dst"
  /\ last.pos = last.pre.size
  /\ last.pre.size = 2
  /\ last.pre.capacity = 4
  /\ Slots(last.pre, type_size)[3] # Slots(last.pre, type_size)[4]

\* the bytes of the slots with indices lo .. hi - 1
SlotBytes(lo, hi) == (lo * type_size)..(hi * type_size - 1)

\* the bytes a block move of n bytes from offset at touches
MoveBytes(at, n) == at..(at + n - 1)

\* the last step added a slot (a duplicate-free add or insert that found the
\* value adds none)
Grew == Grower /\ Cur.size = last.pre.size + 1

\* C17: the element storage of every live container is exactly capacity
\* slots long, and no operation touches a byte outside it: the slot an append
\* hands out has an index below the capacity, the block move of an insert
\* writes only the slots pos + 1 .. size (size the new one's index at most),
\* the block move of an erase reads only slots below the size, and a copy
\* reads only the first size slots of its source.
C17_AccessWithinStorage ==
  /\ \A a \in LiveAddr : Len(heap[a].data) = heap[a].capacity * type_size
  /\ (Grew /\ last.op \in {"add_dst", "set_add"}) =>
        LET r == _set_add_dst(PreHeap, last.st, type_size, st[last.t])
        IN  /\ r.dst = last.pre.size * type_size
            /\ last.pre.size < Cur.capacity
            /\ MoveBytes(r.dst, type_size) \subseteq SlotBytes(0, Cur.capacity)
  /\ (Grew /\ last.op \in {"insert_dst", "set_insert"}) =>
        LET m == insert_move(last.pre, type_size, last.pos)
        IN  /\ m.n >= 0
            /\ MoveBytes(m.dst, m.n) =
                  SlotBytes(last.pos + 1, last.pre.size + 1)
            /\ MoveBytes(m.dst, m.n) \subseteq SlotBytes(0, Cur.capacity)
            /\ MoveBytes(m.src, m.n) \subseteq SlotBytes(0, last.pre.size)
  /\ last.op \in {"erase", "remove"} =>
        LET m == erase_move(last.pre, type_size, last.pos, last.len)
        IN  /\ m.n >= 0
            /\ MoveBytes(m.src, m.n) \subseteq SlotBytes(0, last.pre.size)
            /\ MoveBytes(m.dst, m.n) \subseteq SlotBytes(0, last.pre.size)
  /\ last.op = "copy" =>
        /\ alloc_size(last.pre, type_size) = last.pre.size * type_size
        /\ MoveBytes(0, alloc_size(last.pre, type_size)) \subseteq
              SlotBytes(0, last.pre.capacity)

\* an insert at the front of a full container of two elements: after the
\* growth to four slots the move of both elements writes slots 1 and 2
C17_Witness ==
  /\ last.op = "insert_dst"
  /\ last.pos = 0
  /\ last.pre.size = 2
  /\ last.pre.capacity = 2
  /\ Cur.capacity = 4

\* C18: a container whose elements were all written by set_add and
\* set_insert never holds the same element at two indices, whatever the
\* element width (stated for the behaviours of SpecSet).
C18_NoDuplicates ==
  \A t \in Cont :
     st[t] # NULL =>
        LET c == Contents(heap[st[t]], type_size)
        IN  \A i, j \in 1..Len(c) : c[i] = c[j] => i = j

\* C15: when a malloc or realloc of create, append-slot, insert-slot, reserve
\* or copy fails, the operation terminates the process: it does not return to
\* its caller and does not read or write through the pointer the failed call
\* gave (stated for the behaviours of SpecFail).
C15_FailureIsFatal ==
  proc.failed # "none" =>
     /\ proc.status = "terminated"
     /\ ~proc.returned
     /\ ~proc.deref

=====
